---------------------------- MODULE Spec2Model ----------------------------
(***************************************************************************)
(* A model of the advance-iter crate (src/src/lib.rs): the two adapters    *)
(* Advance and CountingAdvance, each owning an iterator and caching its    *)
(* most recently pulled element.                                           *)
(*                                                                         *)
(* The two structs are the records adv and cnt, with the fields of the     *)
(* source.  Each owns its own copy of one and the same producer, so that   *)
(* the two can be compared.  Every other variable is a history variable:   *)
(* it records what the caller did and saw and is never read by an          *)
(* operation of the adapters.                                              *)
(***************************************************************************)
EXTENDS Integers, Sequences, FiniteSets, TLC

(***************************************************************************)
(* Bounds of the model.                                                    *)
(***************************************************************************)
\* Items are the numbers 1..MaxVal.
MaxVal == 2
\* A producer answers at most MaxLen requests before it is used up.
MaxLen == 3
\* Spec explores at most MaxAdvances advance() calls per adapter.
MaxAdvances == 4
\* The largest value of the counter's type.  usize is 16, 32 or 64 bits wide
\* in the source's language; the model scales it down so that SpecOverflow
\* can count up to it.  MaxAdvances stays below it.
UsizeMax == 6

Values == 1..MaxVal

(***************************************************************************)
(* Option<T>: None is the empty sequence, Some(v) the one-element one.     *)
(***************************************************************************)
None == <<>>
Some(v) == <<v>>
Options == {None} \cup {Some(v) : v \in Values}

(***************************************************************************)
(* The producer, I: Iterator.  Its state is the list of answers it gives   *)
(* to the requests made of it (script), and the number of requests made of *)
(* it so far (pos).  An answer is Some(item) or None; once the script is   *)
(* used up every further answer is None.  A script may answer Some after   *)
(* None: the Iterator trait does not forbid it.                            *)
(***************************************************************************)
Scripts == UNION {[1..n -> Options] : n \in 0..MaxLen}

\* The producer never answers Some after it has answered None.
Fused(script) ==
    \A i \in 1..Len(script) : \A j \in 1..Len(script) :
        (i < j /\ script[i] = None) => script[j] = None

\* The answer to the k-th request (k >= 1) of a producer with this script.
Answer(script, k) == IF k <= Len(script) THEN script[k] ELSE None

\* Iterator::next: the item (or None) and the iterator after the call.
IterNext(iter) ==
    [item |-> Answer(iter.script, iter.pos + 1),
     iter |-> [iter EXCEPT !.pos = iter.pos + 1]]

\* Iterator::next when the producer panics instead of answering: the request
\* was made, no item comes back.
IterNextPanics(iter) == [iter EXCEPT !.pos = iter.pos + 1]

(***************************************************************************)
(* impl Advance                                                            *)
(***************************************************************************)
\* Advance::new
Advance_new(iter) ==
    LET r == IterNext(iter) IN [current |-> r.item, iter |-> r.iter]

\* Defective variant of Advance::advance: assigns only when the producer
\* yields an item (`if let Some(x) = self.iter.next()`), so the last item stays.
Advance_advance_keeps_last(self) ==
    LET r == IterNext(self.iter)
    IN  [self EXCEPT !.current = IF r.item = None THEN @ ELSE r.item,
                     !.iter = r.iter]

\* Defective variant of Advance::advance: fuses the producer.  Once the cache
\* is empty the producer is still asked, but its answer is dropped.
Advance_advance_fused(self) ==
    LET r == IterNext(self.iter)
    IN  [self EXCEPT !.current = IF @ = None THEN None ELSE r.item,
                     !.iter = r.iter]

\* Advance::advance
Advance_advance(self) ==
    LET r == IterNext(self.iter)
    IN  [self EXCEPT !.current = r.item, !.iter = r.iter]

\* Defective variant of Advance::current: hands out the producer's last
\* answer rather than the cached item.
Advance_current_stale(self) == Answer(self.iter.script, self.iter.pos)

\* Advance::current
Advance_current(self) == self.current

\* Defective variant of Advance::current_mut: the view is of a copy of the
\* cached item, so a store through it is lost.
Advance_current_mut_copy(self, v) == self

\* Defective variant of Advance::current_mut: an empty cache is filled so that
\* there is always a view to hand out (`self.current.insert(..)`).
Advance_current_mut_inserts(self, v) == [self EXCEPT !.current = Some(v)]

\* Advance::current_mut, and the caller's store of v through the view it
\* returns.  The view is None when there is no cached item: nothing to store to.
Advance_current_mut(self, v) ==
    IF self.current = None THEN self ELSE [self EXCEPT !.current = Some(v)]

(***************************************************************************)
(* impl CountingAdvance                                                    *)
(***************************************************************************)
\* usize addition as the build without overflow checks performs it.
WrappingAdd(x, y) == (x + y) % (UsizeMax + 1)

\* CountingAdvance::new
CountingAdvance_new(iter) ==
    LET r == IterNext(iter)
    IN  [counter |-> 0, current |-> r.item, iter |-> r.iter]

\* Defective variant of the increment: counts only the advances made while
\* an item is cached.
CountingAdvance_increment_if_some(self) ==
    IF self.current = None THEN self
    ELSE [self EXCEPT !.counter = WrappingAdd(self.counter, 1)]

\* self.counter += 1, when it does not panic
CountingAdvance_increment(self) ==
    [self EXCEPT !.counter = WrappingAdd(self.counter, 1)]

\* Defective variant of the pull: once the cache is empty the producer is
\* taken to be exhausted and is not asked again.
CountingAdvance_pull_fused(self) ==
    IF self.current = None THEN self
    ELSE LET r == IterNext(self.iter)
         IN  [self EXCEPT !.current = r.item, !.iter = r.iter]

\* Defective variant of the pull: the old item is kept when it is larger than
\* the one the producer yields (the cache remembers a maximum).
CountingAdvance_pull_keeps_larger(self) ==
    LET r == IterNext(self.iter)
    IN  [self EXCEPT !.current = IF @ # None /\ r.item # None /\ @[1] > r.item[1]
                                 THEN @ ELSE r.item,
                     !.iter = r.iter]

\* self.current = self.iter.next()
CountingAdvance_pull(self) ==
    LET r == IterNext(self.iter)
    IN  [self EXCEPT !.current = r.item, !.iter = r.iter]

\* Defective variant of CountingAdvance::advance: returns at once when the
\* cache is empty.
CountingAdvance_advance_stops(self) ==
    IF self.current = None THEN self
    ELSE CountingAdvance_pull(CountingAdvance_increment(self))

\* CountingAdvance::advance, when it returns
CountingAdvance_advance(self) ==
    CountingAdvance_pull(CountingAdvance_increment(self))

\* Defective variant of the unwinding advance: the producer is asked before
\* the counter is touched, so a panicking next() leaves the counter as it was.
CountingAdvance_advance_unwinds_asks_first(self) ==
    [self EXCEPT !.iter = IterNextPanics(self.iter)]

\* CountingAdvance::advance, when self.iter.next() panics: the increment has
\* been done, the assignment to self.current has not.
CountingAdvance_advance_unwinds(self) ==
    LET s == CountingAdvance_increment(self)
    IN  [s EXCEPT !.iter = IterNextPanics(s.iter)]

\* CountingAdvance::counter
CountingAdvance_counter(self) == self.counter

\* CountingAdvance::current
CountingAdvance_current(self) == self.current

\* Defective variant of CountingAdvance::current_mut: refills the cache from
\* the producer before handing out the view.
CountingAdvance_current_mut_pulls(self, v) ==
    IF self.current = None THEN self
    ELSE [self EXCEPT !.current = Some(v), !.iter = IterNext(self.iter).iter]

\* CountingAdvance::current_mut, and the caller's store of v through the view
CountingAdvance_current_mut(self, v) ==
    IF self.current = None THEN self ELSE [self EXCEPT !.current = Some(v)]

(***************************************************************************)
(* State                                                                   *)
(***************************************************************************)
VARIABLES
    adv,               \* the Advance struct: [current, iter]
    cnt,               \* the CountingAdvance struct: [counter, current, iter]
    overflow_checks,   \* the build: `+=` panics on overflow (TRUE) or wraps
    adv_calls,         \* advance() calls made on adv
    cnt_calls,         \* advance() calls made on cnt
    adv_written,       \* Some(v): v was stored through current_mut since the last pull
    cnt_written,
    adv_discarded,     \* the cached item the last advance() replaced was a stored one
    cnt_discarded,
    adv_read,          \* what the last (at most two) current() calls returned
    cnt_read,          \*   since the last advance or store
    cnt_counter_read,  \* what the last (at most two) counter() calls returned
                       \*   since the last advance
    cnt_pulls,         \* times advance() has replaced cnt.current
    cnt_panicked       \* why an advance() call on cnt last panicked, "no" if none did

advVars == <<adv, adv_calls, adv_written, adv_discarded, adv_read>>
cntVars == <<cnt, cnt_calls, cnt_written, cnt_discarded, cnt_read,
             cnt_counter_read, cnt_pulls, cnt_panicked>>
vars == <<advVars, cntVars, overflow_checks>>

\* The state after Advance::new(iter) and CountingAdvance::new(iter), the
\* two iterators being equal and fresh.
Init ==
    /\ \E s \in Scripts :
          /\ adv = Advance_new([script |-> s, pos |-> 0])
          /\ cnt = CountingAdvance_new([script |-> s, pos |-> 0])
    /\ overflow_checks \in BOOLEAN
    /\ adv_calls = 0 /\ cnt_calls = 0
    /\ adv_written = None /\ cnt_written = None
    /\ adv_discarded = FALSE /\ cnt_discarded = FALSE
    /\ adv_read = <<>> /\ cnt_read = <<>> /\ cnt_counter_read = <<>>
    /\ cnt_pulls = 0
    /\ cnt_panicked = "no"

\* The results of the last two calls, r being the latest.
Noted(reads, r) == IF reads = <<>> THEN <<r>> ELSE <<reads[Len(reads)], r>>

(***************************************************************************)
(* The operations on adv.  Each is the struct's operation together with    *)
(* the bookkeeping of the history variables.                               *)
(***************************************************************************)
AdvAdvanceOp ==
    /\ adv' = Advance_advance(adv)
    /\ adv_calls' = adv_calls + 1
    /\ adv_discarded' = (adv_written # None)
    /\ adv_written' = None
    /\ adv_read' = <<>>

\* advance() when the producer's next() panics: nothing is assigned.
AdvAdvancePanicsOp ==
    /\ adv' = [adv EXCEPT !.iter = IterNextPanics(adv.iter)]
    /\ adv_calls' = adv_calls + 1
    /\ UNCHANGED <<adv_written, adv_discarded, adv_read>>

AdvCurrentOp ==
    /\ adv_read' = Noted(adv_read, Advance_current(adv))
    /\ UNCHANGED <<adv, adv_calls, adv_written, adv_discarded>>

\* current_mut() and a store of v through the view, if there is one: with no
\* cached item the view is None and the caller has nothing to store to.
AdvCurrentMutOp(v) ==
    /\ adv' = Advance_current_mut(adv, v)
    /\ adv_written' = IF adv.current = None THEN adv_written ELSE Some(v)
    /\ adv_read' = IF adv.current = None THEN adv_read ELSE <<>>
    /\ UNCHANGED <<adv_calls, adv_discarded>>

(***************************************************************************)
(* The operations on cnt.                                                  *)
(***************************************************************************)
\* `self.counter += 1` panics: the counter is at its maximum and the build
\* checks for overflow.
OverflowPanics == overflow_checks /\ cnt.counter = UsizeMax

CntAdvanceOp ==
    /\ ~OverflowPanics
    /\ cnt' = CountingAdvance_advance(cnt)
    /\ cnt_calls' = cnt_calls + 1
    /\ cnt_pulls' = cnt_pulls + 1
    /\ cnt_discarded' = (cnt_written # None)
    /\ cnt_written' = None
    /\ cnt_read' = <<>>
    /\ cnt_counter_read' = <<>>
    /\ UNCHANGED cnt_panicked

\* advance() when `self.counter += 1` panics: nothing has changed.
CntAdvanceOverflowOp ==
    /\ OverflowPanics
    /\ cnt_calls' = cnt_calls + 1
    /\ cnt_panicked' = "overflow"
    /\ UNCHANGED <<cnt, cnt_written, cnt_discarded, cnt_read, cnt_counter_read,
                   cnt_pulls>>

\* advance() when the producer's next() panics.
CntAdvancePanicsOp ==
    /\ ~OverflowPanics
    /\ cnt' = CountingAdvance_advance_unwinds(cnt)
    /\ cnt_calls' = cnt_calls + 1
    /\ cnt_panicked' = "producer"
    /\ cnt_counter_read' = <<>>
    /\ UNCHANGED <<cnt_written, cnt_discarded, cnt_read, cnt_pulls>>

CntCurrentOp ==
    /\ cnt_read' = Noted(cnt_read, CountingAdvance_current(cnt))
    /\ UNCHANGED <<cnt, cnt_calls, cnt_written, cnt_discarded,
                   cnt_counter_read, cnt_pulls, cnt_panicked>>

CntCounterOp ==
    /\ cnt_counter_read' = Noted(cnt_counter_read, CountingAdvance_counter(cnt))
    /\ UNCHANGED <<cnt, cnt_calls, cnt_written, cnt_discarded,
                   cnt_read, cnt_pulls, cnt_panicked>>

CntCurrentMutOp(v) ==
    /\ cnt' = CountingAdvance_current_mut(cnt, v)
    /\ cnt_written' = IF cnt.current = None THEN cnt_written ELSE Some(v)
    /\ cnt_read' = IF cnt.current = None THEN cnt_read ELSE <<>>
    /\ UNCHANGED <<cnt_calls, cnt_discarded, cnt_counter_read,
                   cnt_pulls, cnt_panicked>>

(***************************************************************************)
(* The caller's steps: one operation on one adapter.  A caller works with  *)
(* one of the two adapters and leaves the other as constructed (the two    *)
(* share nothing; SpecPair below runs them together).  limit bounds the    *)
(* advance() calls made.                                                   *)
(***************************************************************************)
AdvIdle == adv_calls = 0 /\ adv_written = None /\ adv_read = <<>>
CntIdle ==
    cnt_calls = 0 /\ cnt_written = None /\ cnt_read = <<>> /\ cnt_counter_read = <<>>

AdvAdvance(limit) ==
    /\ CntIdle /\ adv_calls < limit
    /\ AdvAdvanceOp
    /\ UNCHANGED <<cntVars, overflow_checks>>
AdvAdvancePanics(limit) ==
    /\ CntIdle /\ adv_calls < limit
    /\ AdvAdvancePanicsOp
    /\ UNCHANGED <<cntVars, overflow_checks>>
AdvCurrent ==
    CntIdle /\ AdvCurrentOp /\ UNCHANGED <<cntVars, overflow_checks>>
AdvCurrentMut ==
    \E v \in Values :
        CntIdle /\ AdvCurrentMutOp(v) /\ UNCHANGED <<cntVars, overflow_checks>>
CntAdvance(limit) ==
    /\ AdvIdle /\ cnt_calls < limit
    /\ CntAdvanceOp
    /\ UNCHANGED <<advVars, overflow_checks>>
CntAdvanceOverflow(limit) ==
    /\ AdvIdle /\ cnt_calls < limit
    /\ CntAdvanceOverflowOp
    /\ UNCHANGED <<advVars, overflow_checks>>
CntAdvancePanics(limit) ==
    /\ AdvIdle /\ cnt_calls < limit
    /\ CntAdvancePanicsOp
    /\ UNCHANGED <<advVars, overflow_checks>>
CntCurrent ==
    AdvIdle /\ CntCurrentOp /\ UNCHANGED <<advVars, overflow_checks>>
CntCounter ==
    AdvIdle /\ CntCounterOp /\ UNCHANGED <<advVars, overflow_checks>>
CntCurrentMut ==
    \E v \in Values :
        AdvIdle /\ CntCurrentMutOp(v) /\ UNCHANGED <<advVars, overflow_checks>>

(***************************************************************************)
(* Spec: a caller uses one of the adapters, with a producer that does not   *)
(* panic, for at most MaxAdvances advances (fewer than it takes the        *)
(* counter to reach UsizeMax).                                             *)
(***************************************************************************)
Next ==
    \/ AdvAdvance(MaxAdvances)
    \/ AdvCurrent
    \/ AdvCurrentMut
    \/ CntAdvance(MaxAdvances)
    \/ CntCurrent
    \/ CntCounter
    \/ CntCurrentMut

Spec == Init /\ [][Next]_vars

(***************************************************************************)
(* SpecOverflow: as Spec, with enough advances for the counter to reach    *)
(* UsizeMax and go on from there.                                          *)
(***************************************************************************)
OverflowAdvances == UsizeMax + 2

NextOverflow ==
    \/ AdvAdvance(OverflowAdvances)
    \/ AdvCurrent
    \/ AdvCurrentMut
    \/ CntAdvance(OverflowAdvances)
    \/ CntAdvanceOverflow(OverflowAdvances)
    \/ CntCurrent
    \/ CntCounter
    \/ CntCurrentMut

SpecOverflow == Init /\ [][NextOverflow]_vars

(***************************************************************************)
(* SpecFail: as Spec, with a producer whose next() may panic.              *)
(***************************************************************************)
NextFail ==
    \/ AdvAdvance(MaxAdvances)
    \/ AdvAdvancePanics(MaxAdvances)
    \/ AdvCurrent
    \/ AdvCurrentMut
    \/ CntAdvance(MaxAdvances)
    \/ CntAdvancePanics(MaxAdvances)
    \/ CntCurrent
    \/ CntCounter
    \/ CntCurrentMut

SpecFail == Init /\ [][NextFail]_vars

(***************************************************************************)
(* SpecPair: the two adapters run side by side, every operation applied    *)
(* to both.                                                                *)
(***************************************************************************)
PairAdvance ==
    /\ adv_calls < MaxAdvances
    /\ AdvAdvanceOp /\ CntAdvanceOp
    /\ UNCHANGED overflow_checks
PairCurrent ==
    AdvCurrentOp /\ CntCurrentOp /\ UNCHANGED overflow_checks
PairCurrentMut ==
    \E v \in Values :
        AdvCurrentMutOp(v) /\ CntCurrentMutOp(v) /\ UNCHANGED overflow_checks

NextPair ==
    \/ PairAdvance
    \/ PairCurrent
    \/ PairCurrentMut

SpecPair == Init /\ [][NextPair]_vars

(***************************************************************************)
(* Properties                                                              *)
(***************************************************************************)
\* The number of items a producer yields before its first None.
ItemCount(script) ==
    Cardinality({i \in 1..Len(script) : \A j \in 1..i : script[j] # None})

\* What current() is to be after k advances over a producer that yields the
\* items script[1..N] and then stays exhausted: the item s[k] (0-indexed) for
\* k < N, absent for k >= N.
ItemAfter(script, k) == IF k < ItemCount(script) THEN script[k + 1] ELSE None

\* C1: for either adapter and any producer that yields N items and then stays
\* exhausted, after new() and k advance() calls (and no store since the last
\* of them) current() is the k-th item (0-indexed) if k < N and absent if
\* k >= N.
C1_CurrentIsKthItem ==
    /\ (Fused(adv.iter.script) /\ adv_written = None)
          => Advance_current(adv) = ItemAfter(adv.iter.script, adv_calls)
    /\ (Fused(cnt.iter.script) /\ cnt_written = None)
          => CountingAdvance_current(cnt) = ItemAfter(cnt.iter.script, cnt_calls)

\* An adapter over two items has been advanced three times: past both items
\* and once more after current() became absent.
C1_Witness ==
    /\ Fused(adv.iter.script) /\ ItemCount(adv.iter.script) = 2
    /\ adv_calls = 3 /\ adv_written = None
    /\ Advance_current(adv) = None

\* C2: counter() is the number of advance() calls made since new(): 0 after
\* new(), one more after each advance() whether or not the producer yielded
\* an item, and unchanged by current(), current_mut() and counter().
C2_CounterCountsAdvances ==
    /\ CountingAdvance_counter(cnt) = cnt_calls
    /\ \A i \in 1..Len(cnt_counter_read) : cnt_counter_read[i] = cnt_calls

\* The counter has counted three advances over a one-item producer, two of
\* them after exhaustion, and counter() has been called.
C2_Witness ==
    /\ ItemCount(cnt.iter.script) = 1 /\ Fused(cnt.iter.script)
    /\ cnt_calls = 3 /\ cnt.counter = 3
    /\ cnt_counter_read = <<3>>

\* C3: the requests made to the owned producer number exactly 1 + (advance()
\* calls made): one by new(), one by each advance(), none by any other
\* operation.
C3_OneRequestPerAdvance ==
    /\ adv.iter.pos = 1 + adv_calls
    /\ cnt.iter.pos = 1 + cnt_calls

\* The producer was asked again by an advance() made after it had signalled
\* exhaustion, and reads and a store were made in between.
C3_Witness ==
    /\ cnt_calls = 3 /\ cnt.iter.pos = 4
    /\ ItemCount(cnt.iter.script) = 1 /\ cnt.current = None
    /\ cnt_discarded /\ cnt_read # <<>> /\ cnt_counter_read # <<>>

\* C4: a store through current_mut() is what every later current() returns
\* until the next advance(), and it changes neither the producer's state nor
\* what the next advance() pulls: after k advances, a store, and one more
\* advance, current() is the producer's answer to request k+2, as without
\* the store.
C4_StoreLeavesProducerAlone ==
    /\ adv_written # None =>
          /\ Advance_current(adv) = adv_written
          /\ \A i \in 1..Len(adv_read) : adv_read[i] = adv_written
    /\ cnt_written # None =>
          /\ CountingAdvance_current(cnt) = cnt_written
          /\ \A i \in 1..Len(cnt_read) : cnt_read[i] = cnt_written
    /\ adv.iter.pos = 1 + adv_calls
    /\ cnt.iter.pos = 1 + cnt_calls
    /\ (adv_discarded /\ adv_written = None) =>
          Advance_current(adv) = Answer(adv.iter.script, adv_calls + 1)
    /\ (cnt_discarded /\ cnt_written = None) =>
          CountingAdvance_current(cnt) = Answer(cnt.iter.script, cnt_calls + 1)

\* The first item was overwritten with another value and the adapter then
\* advanced: current() is the producer's second item.
C4_Witness ==
    /\ cnt_discarded /\ cnt_written = None /\ cnt_calls = 1
    /\ cnt.current # None
    /\ Len(cnt.iter.script) >= 2
    /\ cnt.current = cnt.iter.script[2]

\* C5: current() and counter() are pure: called any number of times with no
\* advance() or store in between they return the same value each time, the
\* stored one, and a call changes nothing of the adapter (cached item,
\* counter, producer).
C5_ReadsArePure ==
    /\ [](/\ \A i \in 1..Len(adv_read) : adv_read[i] = adv.current
          /\ \A i \in 1..Len(cnt_read) : cnt_read[i] = cnt.current
          /\ \A i \in 1..Len(cnt_counter_read) : cnt_counter_read[i] = cnt.counter)
    /\ [][/\ (adv_read' # adv_read /\ adv_read' # <<>>) => adv' = adv
          /\ (cnt_read' # cnt_read /\ cnt_read' # <<>>) => cnt' = cnt
          /\ (cnt_counter_read' # cnt_counter_read /\ cnt_counter_read' # <<>>)
                => cnt' = cnt]_vars

\* current() and counter() have each been called twice in a row on an adapter
\* that holds a stored value.
C5_Witness ==
    /\ Len(cnt_read) = 2 /\ Len(cnt_counter_read) = 2
    /\ cnt_written # None /\ cnt_calls = 2

\* C6: exhaustion is a steady state.  With a producer that stays exhausted,
\* an advance() made while current() is absent leaves it absent, and on the
\* counting adapter still adds one to the counter.
C6_ExhaustionIsSteady ==
    [][/\ (Fused(adv.iter.script) /\ adv.current = None
             /\ adv_calls' = adv_calls + 1) => adv'.current = None
       /\ (Fused(cnt.iter.script) /\ cnt.current = None
             /\ cnt_calls' = cnt_calls + 1)
            => (cnt'.current = None /\ cnt'.counter = cnt.counter + 1)]_vars

\* Two advances have been made after the producer's only item was used up.
C6_Witness ==
    /\ Fused(cnt.iter.script) /\ ItemCount(cnt.iter.script) = 1
    /\ cnt.current = None /\ cnt_calls = 3 /\ cnt.counter = 3 /\ cnt_pulls = 3

\* C7: the counter never decreases: after every advance() counter() is at
\* least what it was before, also when it was at the maximum of usize.
\* (Fails: in a build without overflow checks the advance() made at
\* counter = UsizeMax wraps it to 0.)
C7_CounterNeverDecreases == [][cnt'.counter >= cnt.counter]_vars

\* C8: Advance and CountingAdvance behave alike.  Run side by side on equal
\* producers with the same operations, they hold the same cached item, have
\* made the same requests of their producers and have returned the same
\* from current(); CountingAdvance without its counter is Advance.
C8_SameCurrentAndAdvance ==
    /\ Advance_current(adv) = CountingAdvance_current(cnt)
    /\ adv.iter = cnt.iter
    /\ adv_read = cnt_read
    /\ adv = [current |-> cnt.current, iter |-> cnt.iter]

\* Both adapters have advanced past a stored value and past the end of a
\* producer that answers Some after None, and both have been read.
C8_Witness ==
    /\ adv_calls = 3 /\ cnt_calls = 3 /\ cnt.counter = 3
    /\ adv_discarded /\ cnt_discarded
    /\ ~Fused(adv.iter.script)
    /\ adv.current = None
    /\ Len(adv_read) = 2 /\ Len(cnt_read) = 2

\* C9: the adapter never signals an error: with a producer that does not
\* fail, no advance() call panics, at any counter value.
\* (Fails: in a build with overflow checks the advance() made at
\* counter = UsizeMax panics in `self.counter += 1`.)
C9_AdvanceNeverPanics == cnt_panicked = "no"

\* C10, as claimed: the increment of the counter and the replacement of
\* current take effect together, also when the producer's next() panics out
\* of advance(): the counter is always the number of times advance() has
\* replaced current.
\* (Fails: the increment is done before next() is called.)
C10_IncrementAndPullTogether == cnt.counter = cnt_pulls

\* C10, amended: an advance() call that returns has added one to the counter
\* and replaced current with the producer's answer; an advance() call that
\* the producer's panic ends has added one to the counter and left current
\* as it was.
C10_IncrementBeforePull ==
    [][cnt_calls' = cnt_calls + 1 =>
         /\ cnt'.counter = cnt.counter + 1
         /\ IF cnt_pulls' = cnt_pulls + 1
            THEN /\ cnt'.current = Answer(cnt.iter.script, cnt.iter.pos + 1)
                 /\ cnt_panicked' = cnt_panicked
            ELSE /\ cnt'.current = cnt.current
                 /\ cnt_pulls' = cnt_pulls
                 /\ cnt_panicked' = "producer"]_vars

\* The producer panicked in the second advance(): the counter says 2, current
\* is still the item the first advance() pulled.
C10_Witness ==
    /\ cnt_panicked = "producer"
    /\ cnt_calls = 2 /\ cnt.counter = 2 /\ cnt_pulls = 1
    /\ cnt.current # None /\ cnt.current = cnt.iter.script[2]

\* C11: the adapter does not fuse the producer.  Every advance() stores
\* exactly the producer's answer to the request it makes, whatever was cached
\* before: if the producer yields an item after it has signalled exhaustion,
\* current() is present again with that item.
C11_AdvanceStoresTheAnswer ==
    [][/\ adv_calls' = adv_calls + 1 =>
             /\ adv'.current = Answer(adv.iter.script, adv.iter.pos + 1)
             /\ (adv.current = None /\ Answer(adv.iter.script, adv.iter.pos + 1) # None)
                    => Advance_current(adv') # None
       /\ cnt_calls' = cnt_calls + 1 =>
             /\ cnt'.current = Answer(cnt.iter.script, cnt.iter.pos + 1)
             /\ (cnt.current = None /\ Answer(cnt.iter.script, cnt.iter.pos + 1) # None)
                    => CountingAdvance_current(cnt') # None]_vars

\* The producer answered None to the second request and an item to the
\* third: after two advances current() is that item.
C11_Witness ==
    /\ Len(adv.iter.script) = 3
    /\ adv.iter.script[2] = None /\ adv.iter.script[3] # None
    /\ adv_calls = 2 /\ adv.iter.pos = 3
    /\ Advance_current(adv) = adv.iter.script[3]

\* C12: no history is kept across advance().  Once an advance() has been
\* made, the item cached before it, also a value stored into it through
\* current_mut(), is gone and no later current() depends on it: unless a
\* value has been stored since, the cache holds the producer's answer to the
\* most recent request and current() returns it.  The adapter has the one
\* slot, holding at most one item, beside its producer.
C12_NoHistoryKept ==
    /\ adv_written = None =>
          /\ Advance_current(adv) = Answer(adv.iter.script, adv.iter.pos)
          /\ \A i \in 1..Len(adv_read) :
                adv_read[i] = Answer(adv.iter.script, adv.iter.pos)
    /\ cnt_written = None =>
          /\ CountingAdvance_current(cnt) = Answer(cnt.iter.script, cnt.iter.pos)
          /\ \A i \in 1..Len(cnt_read) :
                cnt_read[i] = Answer(cnt.iter.script, cnt.iter.pos)
    /\ DOMAIN adv = {"current", "iter"} /\ Len(adv.current) <= 1
    /\ DOMAIN cnt = {"counter", "current", "iter"} /\ Len(cnt.current) <= 1

\* A value was stored over the first item, the adapter advanced and current()
\* was called: it returned the producer's second item.
C12_Witness ==
    /\ cnt_discarded /\ cnt_written = None /\ cnt_calls = 1
    /\ Len(cnt.iter.script) >= 2 /\ cnt.iter.script[2] # None
    /\ cnt_read = <<cnt.iter.script[2]>>

\* C13: whether current() is present is decided by the producer's answer to
\* the most recent request alone.  current_mut() gives a view exactly when
\* current() is present, and no use of the view turns a present current
\* absent or an absent one present: a store changes the item's value only.
C13_ViewKeepsPresence ==
    /\ [](/\ (Advance_current(adv) = None)
               <=> (Answer(adv.iter.script, adv.iter.pos) = None)
          /\ (CountingAdvance_current(cnt) = None)
               <=> (Answer(cnt.iter.script, cnt.iter.pos) = None)
          /\ \A v \in Values :
                /\ (Advance_current_mut(adv, v).current = None)
                      <=> (Advance_current(adv) = None)
                /\ (CountingAdvance_current_mut(cnt, v).current = None)
                      <=> (CountingAdvance_current(cnt) = None))
    /\ [][/\ (adv' # adv /\ adv_calls' = adv_calls) =>
                /\ (adv'.current = None) <=> (adv.current = None)
                /\ adv'.iter = adv.iter
          /\ (cnt' # cnt /\ cnt_calls' = cnt_calls) =>
                /\ (cnt'.current = None) <=> (cnt.current = None)
                /\ cnt'.iter = cnt.iter /\ cnt'.counter = cnt.counter]_vars

\* A value other than the producer's item has been stored through the view:
\* current() is present, as the producer's last answer was, and holds the
\* stored value.
C13_Witness ==
    /\ cnt_written # None
    /\ CountingAdvance_current(cnt) = cnt_written
    /\ Answer(cnt.iter.script, cnt.iter.pos) # None
    /\ Answer(cnt.iter.script, cnt.iter.pos) # cnt_written
    /\ cnt_calls = 1

=============================================================================
